---------------------------- MODULE Spec2Model ----------------------------
(***************************************************************************)
(* A model of the table classification and continuation-stitching engine   *)
(* of pdf_processor (src/src/pdf_processor.py).                            *)
(*                                                                         *)
(* Strings are sequences of one-character strings, so that strip, lower,   *)
(* replace, isdigit, the substring test and join are computed the way      *)
(* Python computes them.  A DataFrame is a record                          *)
(*     [columns |-> sequence of labels, rows |-> sequence of rows]         *)
(* whose rows all have Len(columns) cells.                                 *)
(***************************************************************************)
EXTENDS Integers, Sequences, FiniteSets, TLC

(***************************************************************************)
(* Bounds of the model.                                                    *)
(***************************************************************************)
\* longest first row of the free first rows (every row of 1..MaxRowLen cells)
MaxRowLen == 3
\* most table fragments in one document
MaxFrags == 3
\* most lines of one page text
MaxLines == 3
\* the PDFs of a directory, and the worker threads started whose signal the
\* window has not handled yet
MaxDocs == 2
MaxWorkers == 2

(***************************************************************************)
(* Python values and string operations.                                    *)
(***************************************************************************)
\* the Python object None in a cell (pdfplumber gives None for a missing cell)
NoneObj == <<"<None>">>
\* a float NaN in a cell (pandas' missing value)
NaNObj == <<"<NaN>">>
\* the empty string
sEmpty == <<>>

sNan == <<"n", "a", "n">>
sNone == <<"N", "o", "n", "e">>

\* str(x)
Str(x) == IF x = NoneObj THEN sNone ELSE IF x = NaNObj THEN sNan ELSE x

Whitespace == {" ", "\n", "\t"}
Digits == {"0", "1", "2", "3", "4", "5", "6", "7", "8", "9"}
UpperChars == <<"A", "B", "C", "D", "E", "F", "G", "H", "I", "J", "K", "L", "M",
                "N", "O", "P", "Q", "R", "S", "T", "U", "V", "W", "X", "Y", "Z",
                "Ä", "Ö", "Ü">>
LowerChars == <<"a", "b", "c", "d", "e", "f", "g", "h", "i", "j", "k", "l", "m",
                "n", "o", "p", "q", "r", "s", "t", "u", "v", "w", "x", "y", "z",
                "ä", "ö", "ü">>

RECURSIVE LStrip(_)
LStrip(s) == IF s # <<>> /\ Head(s) \in Whitespace THEN LStrip(Tail(s)) ELSE s

RECURSIVE RStrip(_)
RStrip(s) ==
    IF s # <<>> /\ s[Len(s)] \in Whitespace THEN RStrip(SubSeq(s, 1, Len(s) - 1)) ELSE s

\* s.strip()
Strip(s) == RStrip(LStrip(s))

\* the lower-case letter of each upper-case letter
LowerTable ==
    [c \in {UpperChars[k] : k \in 1..Len(UpperChars)} |->
        LowerChars[CHOOSE k \in 1..Len(UpperChars) : UpperChars[k] = c]]

LowerChar(c) == IF c \in DOMAIN LowerTable THEN LowerTable[c] ELSE c

\* s.lower()
Lower(s) == [k \in 1..Len(s) |-> LowerChar(s[k])]

\* word in s (substring test on strings)
Contains(word, s) ==
    \E k \in 0..(Len(s) - Len(word)) : \A j \in 1..Len(word) : s[k + j] = word[j]

\* s.replace(ch, '')
Remove(s, ch) == SelectSeq(s, LAMBDA c : c # ch)

\* s.isdigit()
IsDigit(s) == s # <<>> /\ \A k \in 1..Len(s) : s[k] \in Digits

\* s.endswith(':')
EndsWithColon(s) == s # <<>> /\ s[Len(s)] = ":"

RECURSIVE JoinWith(_, _)
\* sep.join(list)
JoinWith(sep, list) ==
    IF list = <<>> THEN <<>>
    ELSE IF Len(list) = 1 THEN list[1]
    ELSE list[1] \o sep \o JoinWith(sep, Tail(list))

\* x in list (membership by equality, for a list of strings)
InList(x, list) == \E k \in 1..Len(list) : list[k] = x

(***************************************************************************)
(* Program constants: the words of pdf_processor.py.                       *)
(***************************************************************************)
sBeginn == <<"B", "e", "g", "i", "n", "n">>
sEnde == <<"E", "n", "d", "e">>
sAusbildung == <<"A", "u", "s", "b", "i", "l", "d", "u", "n", "g">>
sBezeichnung == <<"B", "e", "z", "e", "i", "c", "h", "n", "u", "n", "g">>
sUnternehmen == <<"U", "n", "t", "e", "r", "n", "e", "h", "m", "e", "n">>
sAllgBeschreibung == <<"A", "l", "l", "g", " ", "B", "e", "s", "c", "h", "r", "e", "i", "b", "u", "n", "g">>
sGruppe == <<"G", "r", "u", "p", "p", "e">>
sName == <<"N", "a", "m", "e">>
sEinstufung == <<"E", "i", "n", "s", "t", "u", "f", "u", "n", "g">>
sFamilienname == <<"F", "a", "m", "i", "l", "i", "e", "n", "n", "a", "m", "e">>
sGeburtsdatum == <<"G", "e", "b", "u", "r", "t", "s", "d", "a", "t", "u", "m">>
sNationalitaet == <<"N", "a", "t", "i", "o", "n", "a", "l", "i", "t", "ä", "t">>
sEingestelltAls == <<"E", "i", "n", "g", "e", "s", "t", "e", "l", "l", "t", " ", "a", "l", "s">>
sErlernterBeruf == <<"E", "r", "l", "e", "r", "n", "t", "e", "r", " ", "B", "e", "r", "u", "f">>
sBarcode == <<"B", "a", "r", "c", "o", "d", "e">>
sPersoenlicheEigenschaften == <<"P", "e", "r", "s", "ö", "n", "l", "i", "c", "h", "e", " ", "E", "i", "g", "e", "n", "s", "c", "h", "a", "f", "t", "e", "n">>
wGmbH == <<"G", "m", "b", "H">>

\* PDFProcessor.TABLE_TYPES: the keys in insertion order, and each signature
TABLE_TYPES_keys == <<"education", "work_experience", "skills">>
TABLE_TYPES(t) ==
    CASE t = "education" -> <<sBeginn, sEnde, sAusbildung, sBezeichnung>>
      [] t = "work_experience" ->
             <<sBeginn, sEnde, sUnternehmen, sBezeichnung, sAllgBeschreibung>>
      [] t = "skills" -> <<sGruppe, sName, sEinstufung>>

\* ['', 'nan', 'None']
EmptyMarks == <<sEmpty, sNan, sNone>>
\* ['GmbH', 'AG', 'Co', 'KG', 'Ltd', 'Inc', 'Corp']
business_words ==
    <<wGmbH,
      <<"A", "G">>,
      <<"C", "o">>,
      <<"K", "G">>,
      <<"L", "t", "d">>,
      <<"I", "n", "c">>,
      <<"C", "o", "r", "p">>>>
\* ['arbeiten', 'montage', 'technik', 'mechaniker', 'elektriker']
job_words ==
    <<<<"a", "r", "b", "e", "i", "t", "e", "n">>,
      <<"m", "o", "n", "t", "a", "g", "e">>,
      <<"t", "e", "c", "h", "n", "i", "k">>,
      <<"m", "e", "c", "h", "a", "n", "i", "k", "e", "r">>,
      <<"e", "l", "e", "k", "t", "r", "i", "k", "e", "r">>>>
\* ['unternehmen', 'firma', 'gmbh', 'ag', 'arbeit', 'montage']
work_words ==
    <<<<"u", "n", "t", "e", "r", "n", "e", "h", "m", "e", "n">>,
      <<"f", "i", "r", "m", "a">>,
      <<"g", "m", "b", "h">>,
      <<"a", "g">>,
      <<"a", "r", "b", "e", "i", "t">>,
      <<"m", "o", "n", "t", "a", "g", "e">>>>
\* ['schule', 'ausbildung', 'studium', 'universität']
edu_words ==
    <<<<"s", "c", "h", "u", "l", "e">>,
      <<"a", "u", "s", "b", "i", "l", "d", "u", "n", "g">>,
      <<"s", "t", "u", "d", "i", "u", "m">>,
      <<"u", "n", "i", "v", "e", "r", "s", "i", "t", "ä", "t">>>>

(***************************************************************************)
(* DataFrames.                                                             *)
(***************************************************************************)
\* df.empty
IsEmptyDf(df) == Len(df.rows) = 0 \/ Len(df.columns) = 0

\* df.iloc[0].astype(str).str.strip().tolist()
HeaderOf(df) == [k \in 1..Len(df.rows[1]) |-> Strip(Str(df.rows[1][k]))]

(***************************************************************************)
(* The header classifier.                                                  *)
(***************************************************************************)
\* a classifier that accepts a signature field found inside a longer cell
SignatureSatisfied_substring(header, known_header) ==
    \A k \in 1..Len(known_header) :
        \E j \in 1..Len(header) : Contains(known_header[k], header[j])

\* all(h in header for h in known_header)
SignatureSatisfied(header, known_header) ==
    \A k \in 1..Len(known_header) : InList(known_header[k], header)

RECURSIVE DirectClassification(_, _)
\* the loop over TABLE_TYPES.items(): the first type whose signature is satisfied
DirectClassification(header, k) ==
    IF k > Len(TABLE_TYPES_keys) THEN "unknown"
    ELSE IF SignatureSatisfied(header, TABLE_TYPES(TABLE_TYPES_keys[k]))
         THEN TABLE_TYPES_keys[k]
         ELSE DirectClassification(header, k + 1)

classify_table(df) ==
    IF IsEmptyDf(df) \/ Len(df.rows) < 1 THEN "unknown"
    ELSE DirectClassification(HeaderOf(df), 1)

(***************************************************************************)
(* The continuation pre-filter.                                            *)
(***************************************************************************)
\* str(cell).strip() in ['', 'nan', 'None']
IsEmptyCell(cell) == InList(Strip(Str(cell)), EmptyMarks)

\* sum(1 for cell in row_list if str(cell).strip() in ['', 'nan', 'None'])
EmptyCount(row_list) == Cardinality({k \in 1..Len(row_list) : IsEmptyCell(row_list[k])})

\* cell_str.replace('.', '').replace('-', '').isdigit() and len(cell_str) >= 4
YearPattern(cell_str) ==
    IsDigit(Remove(Remove(cell_str, "."), "-")) /\ Len(cell_str) >= 4

\* any(word in cell_str for word in business_words)
CompanyPattern(cell_str) ==
    \E k \in 1..Len(business_words) : Contains(business_words[k], cell_str)

\* job_words lower-cased (word.lower())
job_words_lower == [k \in 1..Len(job_words) |-> Lower(job_words[k])]

\* any(word.lower() in cell_str.lower() for word in job_words)
JobPattern(cell_str) ==
    LET low == Lower(cell_str)
    IN  \E k \in 1..Len(job_words_lower) : Contains(job_words_lower[k], low)

\* the signals one cell adds to the patterns list (lines 293-312)
CellPatterns(cell) ==
    LET cell_str == Strip(Str(cell))
    IN  IF InList(cell_str, EmptyMarks) THEN {}
        ELSE (IF YearPattern(cell_str) THEN {"year"} ELSE {})
             \cup (IF CompanyPattern(cell_str) THEN {"company"} ELSE {})
             \cup (IF JobPattern(cell_str) THEN {"job_desc"} ELSE {})

\* the patterns list: the signals found (lines 289-312)
Patterns(row_list) ==
    (IF 10 * EmptyCount(row_list) >= 6 * Len(row_list)
     THEN {"mostly_empty"} ELSE {})
    \cup UNION {CellPatterns(row_list[k]) : k \in 1..Len(row_list)}

looks_like_data_not_header(row_list) == Cardinality(Patterns(row_list)) >= 1

(***************************************************************************)
(* The enhanced classifier: direct classification, then continuation.      *)
(***************************************************************************)
\* any(word in ' '.join(header).lower() for word in words)
JoinedHas(header, words) ==
    \E k \in 1..Len(words) : Contains(words[k], Lower(JoinWith(<<" ">>, header)))

\* a detector that wants 60% of empty cells, as the pre-filter does, not 50%
classify_table_enhanced_60(df, previous_classification) ==
    IF IsEmptyDf(df) \/ Len(df.rows) < 1 THEN "unknown"
    ELSE LET header == HeaderOf(df)
             direct == DirectClassification(header, 1)
         IN  IF direct # "unknown" THEN direct
             ELSE IF ~looks_like_data_not_header(header) THEN "unknown"
             ELSE IF previous_classification = "work_experience"
                     /\ (10 * EmptyCount(header) >= 6 * Len(header)
                         \/ JoinedHas(header, work_words))
                  THEN "work_experience"
             ELSE IF previous_classification = "education"
                     /\ JoinedHas(header, edu_words)
                  THEN "education"
             ELSE "unknown"

classify_table_enhanced(df, previous_classification) ==
    IF IsEmptyDf(df) \/ Len(df.rows) < 1 THEN "unknown"
    ELSE LET header == HeaderOf(df)
             direct == DirectClassification(header, 1)
         IN  IF direct # "unknown" THEN direct
             ELSE IF ~looks_like_data_not_header(header) THEN "unknown"
             ELSE IF previous_classification = "work_experience"
                     /\ (2 * EmptyCount(header) >= Len(header)
                         \/ JoinedHas(header, work_words))
                  THEN "work_experience"
             ELSE IF previous_classification = "education"
                     /\ JoinedHas(header, edu_words)
                  THEN "education"
             ELSE "unknown"

(***************************************************************************)
(* Input data: cell texts, first rows and page texts.                      *)
(***************************************************************************)
cYear == <<"2", "0", "1", "5", ".", "0">>
cYear07 == <<"2", "0", "0", "7", ".", "0">>
cShortNum == <<"1", "2", ".", "0">>
cFoo == <<"F", "o", "o">>
cBar == <<"B", "a", "r">>
cFirma == <<"F", "i", "r", "m", "a">>
cSchule == <<"S", "c", "h", "u", "l", "e">>
cSchuleGmbH == <<"S", "c", "h", "u", "l", "e", " ", "G", "m", "b", "H">>
cMontage == <<"M", "o", "n", "t", "a", "g", "e">>
cEndePadded == <<" ", "E", "n", "d", "e", " ">>
cEndes == <<"E", "n", "d", "e", "s">>
cMax == <<"M", "a", "x">>
cBirth == <<"1", "9", "9", "0", "-", "0", "1", "-", "0", "1">>
cNett == <<"n", "e", "t", "t">>
cA == <<"a">>
cB == <<"b">>
cC == <<"c">>
tPlain == <<"L", "e", "b", "e", "n", "s", "l", "a", "u", "f", "\n", "M", "a", "x">>
tTraits == <<"P", "r", "o", "f", "i", "l", "\n", "P", "e", "r", "s", "ö", "n", "l", "i", "c", "h", "e", " ", "E", "i", "g", "e", "n", "s", "c", "h", "a", "f", "t", "e", "n", "\n", "k", "l", "u", "g", " ", "\n", "f", "i", "t", "\n", "\n", "E", "n", "d", "e">>
tColon == <<"P", "e", "r", "s", "ö", "n", "l", "i", "c", "h", "e", " ", "E", "i", "g", "e", "n", "s", "c", "h", "a", "f", "t", "e", "n", ":", "\n", "k", "l", "u", "g", "\n", "B", "e", "r", "u", "f", ":", "\n", "f", "i", "t">>
tBlank == <<"P", "e", "r", "s", "ö", "n", "l", "i", "c", "h", "e", " ", "E", "i", "g", "e", "n", "s", "c", "h", "a", "f", "t", "e", "n", "\n", "\n", "k", "l", "u", "g">>
tLater == <<"x", "\n", "P", "e", "r", "s", "ö", "n", "l", "i", "c", "h", "e", " ", "E", "i", "g", "e", "n", "s", "c", "h", "a", "f", "t", "e", "n", "\n", "f", "i", "t">>
sColPrefix == <<"c", "o", "l", "_">>

\* the label pandas gives the k-th column of DataFrame(tbl): the integer k
IntLabel(k) == <<"#" \o ToString(k)>>

\* a one-row DataFrame(tbl) whose first row is r
RowDf(r) == [columns |-> [k \in 1..Len(r) |-> IntLabel(k - 1)], rows |-> <<r>>]

\* cells of the free first rows
FreeCells == {sEmpty, NoneObj, cYear, cShortNum, wGmbH, cSchule, cFoo, cFirma, cMontage}
FreeRows == UNION {[1..n -> FreeCells] : n \in 1..MaxRowLen}

\* first rows built on the header signatures: a signature, two signatures at
\* once, a signature in another order, and each with one cell replaced or added
SigBases ==
    {TABLE_TYPES("education"), TABLE_TYPES("work_experience"), TABLE_TYPES("skills"),
     <<sBeginn, sEnde, sAusbildung, sBezeichnung, sUnternehmen, sAllgBeschreibung>>,
     <<sAllgBeschreibung, sUnternehmen, sBezeichnung, sEnde, sBeginn>>,
     <<sEinstufung, sGruppe, sName>>}
VariantCells == {sEmpty, NoneObj, cEndes, cEndePadded, cFoo, wGmbH, sAusbildung, sGruppe}
SigRows ==
    SigBases
    \cup UNION {{[b EXCEPT ![k] = c] : k \in 1..Len(b), c \in VariantCells} : b \in SigBases}
    \cup {Append(b, c) : b \in SigBases, c \in VariantCells}
    \cup {<<c>> \o b : b \in SigBases, c \in VariantCells}
ExampleRows == {<<sEmpty, sEmpty, sEmpty, sEmpty>>, <<cYear, wGmbH, sEmpty, sEmpty>>}
HeaderRows == FreeRows \cup SigRows \cup ExampleRows

\* previous_classification: None, or what classify_table_enhanced returned
PrevValues == {"None", "education", "work_experience", "skills", "unknown"}

\* raw grids as page.extract_tables() returns them: rows of str or None
GridWork ==
    <<TABLE_TYPES("work_experience"),
      <<cYear07, cYear, wGmbH, cA, cB>>,
      <<cYear, sEmpty, cFirma, cC, cA>>>>
\* a headerless grid of 3 columns: a year and an organization in its first row
GridCont3 == <<<<cYear07, cSchuleGmbH, sEmpty>>, <<cA, cB, cC>>>>
\* a headerless grid of 6 columns whose first row is empty
GridContEmpty ==
    <<<<sEmpty, sEmpty, sEmpty, sEmpty, sEmpty, sEmpty>>,
      <<cYear, cYear, cFirma, cA, cB, cC>>>>
GridEducation == <<TABLE_TYPES("education"), <<cYear07, cYear, cSchule, cA>>>>
\* a skills grid with a column and a row that hold only None
GridSkills ==
    <<<<sGruppe, NoneObj, sName, sEinstufung>>,
      <<NoneObj, NoneObj, NoneObj, NoneObj>>,
      <<cA, NoneObj, cB, cC>>>>
\* a traits grid that holds the free-text field
GridTraitsA ==
    <<<<sName, sGeburtsdatum, sPersoenlicheEigenschaften>>, <<cMax, sEmpty, cNett>>>>
\* a traits grid whose first data row is empty
GridTraitsB ==
    <<<<sName, sFamilienname, sGeburtsdatum>>,
      <<sEmpty, sEmpty, sEmpty>>,
      <<sEmpty, cBar, cBirth>>>>
\* a traits grid that consists of its header row only
GridTraitsHeader == <<<<sErlernterBeruf, sBarcode>>>>
\* an education grid with a fifth column, headed by a job keyword
GridEducationWide ==
    <<<<sBeginn, sEnde, sAusbildung, sBezeichnung, cMontage>>,
      <<cYear, cYear07, cSchule, cB, cC>>>>
GridDup == <<<<cFoo, cFoo>>, <<cA, cB>>>>
GridOther == <<<<cBar, cMax>>, <<cC, cA>>>>
GridNone == <<<<NoneObj, NoneObj>>, <<NoneObj, NoneObj>>>>

Grids ==
    {GridWork, GridCont3, GridContEmpty, GridEducation, GridEducationWide, GridSkills,
     GridTraitsA, GridTraitsB, GridTraitsHeader, GridDup, GridOther, GridNone}

\* the grids of one document, in page order
Documents == UNION {[1..n -> Grids] : n \in 0..MaxFrags}

\* the page texts of one document, as page.extract_text() returns them
TextDocs ==
    {<<tPlain>>, <<tPlain, tTraits, tLater>>, <<NoneObj, tColon>>, <<tBlank, tLater>>}

Categories == {"education", "work_experience", "skills", "traits", "unknown"}

(***************************************************************************)
(* The grid normalizer of extract_tables_from_pdf.                         *)
(***************************************************************************)
\* pandas' isna on a cell: None and NaN are missing, the empty string is not
IsNa(cell) == cell = NoneObj \/ cell = NaNObj

\* pd.DataFrame(tbl)
DataFrame(tbl) ==
    [columns |-> IF tbl = <<>> THEN <<>> ELSE [k \in 1..Len(tbl[1]) |-> IntLabel(k - 1)],
     rows |-> tbl]

\* the columns of df at the positions keep (a sequence of positions)
TakeColumns(df, keep) ==
    [columns |-> [k \in 1..Len(keep) |-> df.columns[keep[k]]],
     rows |-> [r \in 1..Len(df.rows) |-> [k \in 1..Len(keep) |-> df.rows[r][keep[k]]]]]

\* df.dropna(how='all', axis=1)
DropNaColumns(df) ==
    TakeColumns(df, SelectSeq([k \in 1..Len(df.columns) |-> k],
                              LAMBDA k : \E r \in 1..Len(df.rows) : ~IsNa(df.rows[r][k])))

\* df.dropna(how='all', axis=0)
DropNaRows(df) ==
    [df EXCEPT !.rows =
        SelectSeq(df.rows, LAMBDA row : \E k \in 1..Len(row) : ~IsNa(row[k]))]

Normalize(tbl) == DropNaRows(DropNaColumns(DataFrame(tbl)))

\* the tables list extract_tables_from_pdf builds from the grids it has read
ExtractedTables(grids) ==
    SelectSeq([k \in 1..Len(grids) |-> Normalize(grids[k])], LAMBDA df : ~IsEmptyDf(df))

(***************************************************************************)
(* The trait-text extractor.                                               *)
(***************************************************************************)
RECURSIVE Split(_, _)
\* text.split("\n"), cur being the line read so far
Split(text, cur) ==
    IF text = <<>> THEN <<cur>>
    ELSE IF Head(text) = "\n" THEN <<cur>> \o Split(Tail(text), <<>>)
    ELSE Split(Tail(text), Append(cur, Head(text)))

RECURSIVE TraitLines_to_blank(_)
\* TraitLines stopping at a blank line only
TraitLines_to_blank(lines) ==
    IF lines = <<>> THEN <<>>
    ELSE IF Strip(lines[1]) = <<>> THEN <<>>
    ELSE <<Strip(lines[1])>> \o TraitLines_to_blank(Tail(lines))

RECURSIVE TraitLines(_)
\* the stripped lines up to the first blank line or line ending in a colon
TraitLines(lines) ==
    IF lines = <<>> THEN <<>>
    ELSE IF Strip(lines[1]) = <<>> \/ EndsWithColon(Strip(lines[1])) THEN <<>>
    ELSE <<Strip(lines[1])>> \o TraitLines(Tail(lines))

\* the first index i with the heading in lines[i]
HeadingLine(lines) ==
    CHOOSE i \in 1..Len(lines) :
        /\ Contains(sPersoenlicheEigenschaften, lines[i])
        /\ \A j \in 1..(i - 1) : ~Contains(sPersoenlicheEigenschaften, lines[j])

RECURSIVE TraitTextFrom(_)
\* the loop over pdf.pages
TraitTextFrom(pages) ==
    IF pages = <<>> THEN <<>>
    ELSE IF pages[1] # NoneObj /\ pages[1] # <<>>
            /\ Contains(sPersoenlicheEigenschaften, pages[1])
         THEN LET lines == Split(pages[1], <<>>)
              IN  JoinWith(<<" ">>, TraitLines(SubSeq(lines, HeadingLine(lines) + 1, Len(lines))))
         ELSE TraitTextFrom(Tail(pages))

\* opened is FALSE when pdfplumber.open raises: the except clause returns ""
extract_trait_text_from_pdf(pages, opened) == IF opened THEN TraitTextFrom(pages) ELSE <<>>

\* what the extractor returns for the documents of TextDocs
TraitTexts == {extract_trait_text_from_pdf(pages, opened) : pages \in TextDocs, opened \in BOOLEAN}

(***************************************************************************)
(* is_traits_table.                                                        *)
(***************************************************************************)
personal_headers == <<sName, sFamilienname, sGeburtsdatum, sNationalitaet, sEingestelltAls>>
occupation_headers == <<sErlernterBeruf, sBarcode>>
traits_headers == <<sPersoenlicheEigenschaften>>

LowerAll(list) == [k \in 1..Len(list) |-> Lower(list[k])]

is_traits_table(header) ==
    LET header_lower == LowerAll(header)
        personal_headers_lower == LowerAll(personal_headers)
        personal_matches ==
            Cardinality({j \in 1..Len(personal_headers_lower) :
                \E k \in 1..Len(header_lower) :
                    Contains(personal_headers_lower[j], header_lower[k])})
    IN  \/ personal_matches >= 3
        \/ \E k \in 1..Len(occupation_headers) :
               InList(Lower(occupation_headers[k]), header_lower)
        \/ \E k \in 1..Len(traits_headers) :
               InList(Lower(traits_headers[k]), header_lower)

(***************************************************************************)
(* The column reconciler and the header promotion of process_single_pdf.   *)
(***************************************************************************)
RECURSIVE DecChars(_)
\* str(n) for a natural number
DecChars(n) == IF n < 10 THEN <<ToString(n)>> ELSE DecChars(n \div 10) \o <<ToString(n % 10)>>

\* f'col_{n}'
ColLabel(n) == sColPrefix \o DecChars(n)

RECURSIVE PadColumns(_, _)
\* while len(df.columns) < expected_cols: df[f'col_{len(df.columns)}'] = ''
PadColumns(df, expected_cols) ==
    IF Len(df.columns) < expected_cols
    THEN PadColumns([columns |-> Append(df.columns, ColLabel(Len(df.columns))),
                     rows |-> [r \in 1..Len(df.rows) |-> Append(df.rows[r], sEmpty)]],
                    expected_cols)
    ELSE df

\* a slice that keeps every column
IlocColumns_all(df, n) == df

\* df.iloc[:, :n]
IlocColumns(df, n) ==
    TakeColumns(df, [k \in 1..(IF n < Len(df.columns) THEN n ELSE Len(df.columns)) |-> k])

\* lines 189-200: the continuation takes the anchor's column count and labels
Reconcile(df, previous_df) ==
    LET expected_cols == Len(previous_df.columns)
        adjusted == IF Len(df.columns) # expected_cols
                    THEN IlocColumns(PadColumns(df, expected_cols), expected_cols)
                    ELSE df
    IN  [adjusted EXCEPT !.columns = previous_df.columns]

\* line 203: df.columns = [f'col_{i}' for i in range(len(df.columns))]
GenericColumns(df) == [df EXCEPT !.columns = [k \in 1..Len(df.columns) |-> ColLabel(k - 1)]]

\* lines 206-207: df.columns = df.iloc[0]; df = df[1:].copy()
PromoteHeader(df) == [columns |-> df.rows[1], rows |-> Tail(df.rows)]

\* lines 180-182
IsContinuation(table_type, previous, original_header) ==
    /\ table_type = previous
    /\ table_type \in {"work_experience", "education"}
    /\ looks_like_data_not_header(original_header)

\* lines 184-207: the fragment as it is stored
Restructure(df, is_continuation, stored) ==
    IF is_continuation
    THEN IF stored # <<>> THEN Reconcile(df, stored[Len(stored)]) ELSE GenericColumns(df)
    ELSE PromoteHeader(df)

\* a routing by the header classifier's verdict instead of table_type
RouteOf_direct(table_type, original_header) ==
    LET direct == classify_table(RowDf(original_header))
    IN  IF direct = "unknown" /\ is_traits_table(original_header) THEN "traits"
        ELSE direct

\* lines 210-218: the accumulator the fragment is appended to
RouteOf(table_type, original_header) ==
    IF table_type = "unknown" /\ is_traits_table(original_header) THEN "traits"
    ELSE IF table_type = "unknown" THEN "unknown"
    ELSE table_type

\* an update that lets the anchor survive an unclassified fragment
NextPrevious_keep(table_type, previous) ==
    IF table_type = "unknown" THEN previous ELSE table_type

\* line 220: previous_classification = table_type
NextPrevious(table_type, previous) == table_type

(***************************************************************************)
(* Writing a category: pd.concat, flatten_dataframe, to_csv.               *)
(***************************************************************************)
HasDuplicates(labels) == \E j, k \in 1..Len(labels) : j # k /\ labels[j] = labels[k]

RECURSIVE UnionColumns(_, _)
\* the labels of all frames, each once, in order of first appearance
UnionColumns(dfs, acc) ==
    IF dfs = <<>> THEN acc
    ELSE UnionColumns(Tail(dfs),
                      acc \o SelectSeq(dfs[1].columns, LAMBDA l : ~InList(l, acc)))

\* pd.concat aligns the frames on their column labels; when the labels of the
\* frames differ it reindexes them, which pandas refuses for a frame with
\* duplicate labels (InvalidIndexError)
ConcatRaises(dfs) ==
    /\ \E k \in 1..Len(dfs) : dfs[k].columns # dfs[1].columns
    /\ \E k \in 1..Len(dfs) : HasDuplicates(dfs[k].columns)

PositionOf(label, labels) == CHOOSE k \in 1..Len(labels) : labels[k] = label

\* df.reindex(columns=labels): a label df lacks gives NaN
Reindex(df, labels) ==
    IF df.columns = labels THEN df
    ELSE [columns |-> labels,
          rows |-> [r \in 1..Len(df.rows) |->
                      [k \in 1..Len(labels) |->
                          IF InList(labels[k], df.columns)
                          THEN df.rows[r][PositionOf(labels[k], df.columns)]
                          ELSE NaNObj]]]

RECURSIVE ConcatRows(_, _)
ConcatRows(dfs, labels) ==
    IF dfs = <<>> THEN <<>>
    ELSE Reindex(dfs[1], labels).rows \o ConcatRows(Tail(dfs), labels)

\* pd.concat(dfs, ignore_index=True), when it does not raise
Concat(dfs) ==
    LET labels == IF \A k \in 1..Len(dfs) : dfs[k].columns = dfs[1].columns
                  THEN dfs[1].columns
                  ELSE UnionColumns(dfs, <<>>)
    IN  [columns |-> labels, rows |-> ConcatRows(dfs, labels)]

\* str(x).replace('\n', ' ').strip() if isinstance(x, str) else x
FlattenCell(x) ==
    IF IsNa(x) THEN x ELSE Strip([k \in 1..Len(x) |-> IF x[k] = "\n" THEN " " ELSE x[k]])

flatten_dataframe(df) ==
    [df EXCEPT !.rows = [r \in 1..Len(df.rows) |->
                            [k \in 1..Len(df.rows[r]) |-> FlattenCell(df.rows[r][k])]]]

\* to_csv writes a missing value (None, NaN) as the empty field
CsvField(x) == IF IsNa(x) THEN sEmpty ELSE x

\* the file to_csv(index=False, sep=";") writes: the labels, then the rows
ToCsv(df) ==
    [exists |-> TRUE,
     columns |-> [k \in 1..Len(df.columns) |-> CsvField(df.columns[k])],
     rows |-> [r \in 1..Len(df.rows) |->
                 [k \in 1..Len(df.rows[r]) |-> CsvField(df.rows[r][k])]]]

\* pd.read_csv(sep=";"): an empty field is read back as NaN
ReadCsv(file) ==
    [columns |-> file.columns,
     rows |-> [r \in 1..Len(file.rows) |->
                 [k \in 1..Len(file.rows[r]) |->
                     IF file.rows[r][k] = sEmpty THEN NaNObj ELSE file.rows[r][k]]]]

NoFile == [exists |-> FALSE, columns |-> <<>>, rows |-> <<>>]

(***************************************************************************)
(* merge_traits_tables.                                                    *)
(***************************************************************************)
all_columns ==
    <<sName, sFamilienname, sGeburtsdatum, sNationalitaet,
      sPersoenlicheEigenschaften, sErlernterBeruf, sBarcode>>

\* pd.DataFrame(columns=all_columns)
EmptyMerged == [columns |-> all_columns, rows |-> <<>>]

\* any(str(cell).strip() not in ['', 'nan', 'None'] for cell in row)
RowHasData(row) == \E k \in 1..Len(row) : ~IsEmptyCell(row[k])

\* a merge in which the last fragment wins
MergeCell_overwrite(merged, col, value) ==
    IF ~InList(col, all_columns) THEN merged
    ELSE LET p == PositionOf(col, all_columns)
         IN  IF IsEmptyDf(merged)
             THEN [merged EXCEPT !.rows =
                      <<[k \in 1..Len(all_columns) |-> IF k = p THEN value ELSE NaNObj]>>]
             ELSE [merged EXCEPT !.rows[1][p] = value]

\* lines 377-384: one column of the chosen row is merged into the record
MergeCell(merged, col, value) ==
    IF ~InList(col, all_columns) THEN merged
    ELSE LET p == PositionOf(col, all_columns)
         IN  IF IsEmptyDf(merged)
             THEN [merged EXCEPT !.rows =
                      <<[k \in 1..Len(all_columns) |-> IF k = p THEN value ELSE NaNObj]>>]
             ELSE IF IsEmptyCell(merged.rows[1][p])
                  THEN [merged EXCEPT !.rows[1][p] = value]
                  ELSE merged

RECURSIVE MergeRow(_, _, _, _)
\* for col in df.columns, from the k-th column on
MergeRow(merged, columns, row, k) ==
    IF k > Len(columns) THEN merged
    ELSE MergeRow(MergeCell(merged, columns[k], row[k]), columns, row, k + 1)

\* lines 371-385: one frame is merged, through its first row that holds data
MergeFrame(merged, df) ==
    IF IsEmptyDf(df) \/ ~\E r \in 1..Len(df.rows) : RowHasData(df.rows[r]) THEN merged
    ELSE LET first == CHOOSE r \in 1..Len(df.rows) :
                          /\ RowHasData(df.rows[r])
                          /\ \A q \in 1..(r - 1) : ~RowHasData(df.rows[q])
         IN  MergeRow(merged, df.columns, df.rows[first], 1)

\* lines 388-392: what merge_traits_tables returns
MergedResult(merged) ==
    IF IsEmptyDf(merged) THEN EmptyMerged
    ELSE [merged EXCEPT !.rows = SubSeq(merged.rows, 1, 1)]

(***************************************************************************)
(* The trait text is written into traits.csv (lines 243-268).              *)
(***************************************************************************)
\* existing_traits.at[idx, "Persönliche Eigenschaften"] = trait_text
SetTraitText(existing, r, trait_text) ==
    IF InList(sPersoenlicheEigenschaften, existing.columns)
    THEN [existing EXCEPT
            !.rows[r][PositionOf(sPersoenlicheEigenschaften, existing.columns)] = trait_text]
    ELSE [columns |-> Append(existing.columns, sPersoenlicheEigenschaften),
          rows |-> [q \in 1..Len(existing.rows) |->
                      Append(existing.rows[q], IF q = r THEN trait_text ELSE NaNObj)]]

\* lines 249-263: the rewritten traits.csv
TraitsWithText(file, trait_text) ==
    LET existing_traits == ReadCsv(file)
    IN  IF IsEmptyDf(existing_traits) THEN ToCsv(existing_traits)
        ELSE IF \E r \in 1..Len(existing_traits.rows) : RowHasData(existing_traits.rows[r])
             THEN ToCsv(SetTraitText(existing_traits,
                         CHOOSE r \in 1..Len(existing_traits.rows) :
                             /\ RowHasData(existing_traits.rows[r])
                             /\ \A q \in 1..(r - 1) : ~RowHasData(existing_traits.rows[q]),
                         trait_text))
             ELSE ToCsv(SetTraitText(existing_traits, 1, trait_text))

\* lines 266-267: traits.csv made of the text alone
TraitsFromText(trait_text) ==
    ToCsv([columns |-> <<sPersoenlicheEigenschaften>>, rows |-> <<<<trait_text>>>>])

(***************************************************************************)
(* The state of one call of process_single_pdf.                            *)
(***************************************************************************)
VARIABLES
    input_dir,                \* what self.input_dir names: "missing", "no_pdf" or "pdf"
    pc,                       \* "start", "extract", "run" or "done"
    tables,                   \* the list extract_tables_from_pdf returned
    extract_failed,           \* whether the extraction raised (and was logged)
    idx,                      \* fragments of tables processed so far
    previous_classification,  \* "None" or the last table_type
    table_store,              \* category -> list of stored frames
    store_keys,               \* the keys of table_store in insertion order
    csv,                      \* category -> the file <category>.csv
    writes,                   \* category -> times <category>.csv was written
    generated_files,          \* the files list of the result
    result,                   \* what process_single_pdf returns
    log,                      \* per processed fragment, how it was classified
    last,                     \* the frames of the fragment processed last
    save_idx,                 \* categories of store_keys written so far, plus 1
    merge_idx,                \* frames merge_traits_tables has merged, plus 1
    merged_df,                \* merged_df of merge_traits_tables
    trait_text,               \* what extract_trait_text_from_pdf returned
    probe,                    \* a first row handed to the classifiers directly
    gui                       \* the window of gui.py and its worker thread

vars ==
    <<input_dir, pc, tables, extract_failed, idx, previous_classification, table_store,
      store_keys, csv, writes, generated_files, result, log, last, save_idx,
      merge_idx, merged_df, trait_text, probe, gui>>

loopVars == <<idx, previous_classification, table_store, store_keys, log, last>>
saveVars == <<csv, writes, generated_files, save_idx, merge_idx, merged_df>>
procVars ==
    <<input_dir, pc, tables, extract_failed, loopVars, saveVars, result, trait_text>>

Pending == [kind |-> "pending", status |-> "", files |-> <<>>]
\* return None
NoneResult == [kind |-> "None", status |-> "", files |-> <<>>]
\* an exception leaves process_single_pdf
Raised == [kind |-> "raised", status |-> "", files |-> <<>>]
ResultDict(status, files) == [kind |-> "dict", status |-> status, files |-> files]

NoLast == [df_in |-> RowDf(<<sEmpty>>), anchor |-> <<>>, df_out |-> RowDf(<<sEmpty>>)]

\* a directory the user can pick: the number of PDFs in it and which of them
\* (0 for none) pdfplumber cannot read
NoDir == [selected |-> FALSE, pdfs |-> 0, failing |-> 0]
Directories ==
    UNION {{[selected |-> TRUE, pdfs |-> n, failing |-> k] : k \in 0..n} : n \in 0..MaxDocs}

\* PDFProcessorGUI.__init__: the window as constructed, no worker yet
NewWindow ==
    [phase |-> "open",
     input_dir |-> NoDir,            \* self.input_dir
     output_dir |-> FALSE,           \* whether self.output_dir is set
     process_enabled |-> FALSE,      \* process_button.isEnabled()
     progress_visible |-> FALSE,     \* progress_bar.isVisible()
     progress_value |-> 0,           \* progress_bar.value()
     status_label |-> "",            \* status_label.text()
     worker_dir |-> NoDir,           \* the input_dir of self.worker
     running |-> 0,                  \* worker threads that have not left run()
     pending |-> 0,                  \* error signals queued for the window
     last_signal |-> "none",         \* the signal the latest run() emitted
     results |-> <<>>]               \* the payload of a finished signal

\* no window has been opened
NoGui == [NewWindow EXCEPT !.phase = "off"]

NoProbe ==
    [df |-> RowDf(<<sEmpty>>), prev |-> "None", pages |-> <<>>, opened |-> TRUE,
     op |-> "off", val |-> "", flag |-> FALSE, text |-> <<>>]

ProcessInit ==
    /\ pc = "start"
    /\ tables = <<>>
    /\ extract_failed = FALSE
    /\ idx = 0
    /\ previous_classification = "None"
    /\ table_store = [c \in Categories |-> <<>>]
    /\ store_keys = <<>>
    /\ csv = [c \in Categories |-> NoFile]
    /\ writes = [c \in Categories |-> 0]
    /\ generated_files = <<>>
    /\ result = Pending
    /\ log = <<>>
    /\ last = NoLast
    /\ save_idx = 1
    /\ merge_idx = 1
    /\ merged_df = EmptyMerged
    /\ trait_text = <<>>

\* the input directory is absent, holds no PDF, or holds one
InputDirs == {"missing", "no_pdf", "pdf"}

Init ==
    /\ ProcessInit
    /\ input_dir \in InputDirs
    /\ probe = NoProbe
    /\ gui = NoGui

(***************************************************************************)
(* process_single_pdf, step by step.                                       *)
(***************************************************************************)
\* lines 153-158: the output directory is cleaned and get_single_pdf_file
\* lists the input directory, both before the try block: os.listdir raises
\* FileNotFoundError for a missing directory, and no PDF gives None
Start ==
    /\ pc = "start"
    /\ CASE input_dir = "missing" -> pc' = "done" /\ result' = Raised
         [] input_dir = "no_pdf" -> pc' = "done" /\ result' = NoneResult
         [] input_dir = "pdf" -> pc' = "extract" /\ result' = result
    /\ UNCHANGED <<input_dir, tables, extract_failed, loopVars, saveVars, trait_text,
                   probe, gui>>

\* line 162: extract_tables_from_pdf reads the grids of the document
ExtractTables ==
    /\ pc = "extract"
    /\ \E grids \in Documents : tables' = ExtractedTables(grids)
    /\ extract_failed' = FALSE
    /\ pc' = "run"
    /\ UNCHANGED <<input_dir, loopVars, saveVars, result, trait_text, probe, gui>>

\* lines 84-86: pdfplumber raises (on open, or on a page) before the last grid
\* is read; the except clause logs the error and the tables read so far are
\* returned
ExtractTablesFails ==
    /\ pc = "extract"
    /\ \E grids \in Documents :
          /\ Len(grids) < MaxFrags
          /\ tables' = ExtractedTables(grids)
    /\ extract_failed' = TRUE
    /\ pc' = "run"
    /\ UNCHANGED <<input_dir, loopVars, saveVars, result, trait_text, probe, gui>>

\* lines 169-222: the body of the fragment loop
ProcessTable ==
    /\ pc = "run"
    /\ idx < Len(tables)
    /\ LET df == tables[idx + 1]
           original_header == HeaderOf(df)
           table_type == classify_table_enhanced(df, previous_classification)
           is_continuation ==
               IsContinuation(table_type, previous_classification, original_header)
           stored == IF is_continuation THEN table_store[table_type] ELSE <<>>
           stored_df == Restructure(df, is_continuation, stored)
           route == RouteOf(table_type, original_header)
       IN  /\ table_store' = [table_store EXCEPT ![route] = Append(@, stored_df)]
           /\ store_keys' =
                 IF InList(route, store_keys) THEN store_keys ELSE Append(store_keys, route)
           /\ previous_classification' = NextPrevious(table_type, previous_classification)
           /\ log' = Append(log,
                 [direct |-> classify_table(df),
                  previous |-> previous_classification,
                  table_type |-> table_type,
                  is_continuation |-> is_continuation,
                  route |-> route])
           /\ last' = [df_in |-> df,
                       anchor |-> IF stored = <<>> THEN <<>> ELSE <<stored[Len(stored)]>>,
                       df_out |-> stored_df]
    /\ idx' = idx + 1
    /\ UNCHANGED <<input_dir, pc, tables, extract_failed, saveVars, result, trait_text, probe, gui>>

Saving == pc = "run" /\ idx = Len(tables) /\ save_idx <= Len(store_keys)

\* lines 236-240: a category other than traits is concatenated and written
SaveCategory ==
    /\ Saving
    /\ store_keys[save_idx] # "traits"
    /\ LET table_type == store_keys[save_idx]
           dfs == table_store[table_type]
       IN  /\ ~ConcatRaises(dfs)
           /\ csv' = [csv EXCEPT ![table_type] = ToCsv(flatten_dataframe(Concat(dfs)))]
           /\ writes' = [writes EXCEPT ![table_type] = @ + 1]
           /\ generated_files' = Append(generated_files, table_type)
    /\ save_idx' = save_idx + 1
    /\ UNCHANGED <<input_dir, pc, tables, extract_failed, loopVars, merge_idx, merged_df, result,
                   trait_text, probe, gui>>

\* lines 276-282: pd.concat raises, the except clause returns the error record
SaveCategoryRaises ==
    /\ Saving
    /\ store_keys[save_idx] # "traits"
    /\ ConcatRaises(table_store[store_keys[save_idx]])
    /\ result' = ResultDict("error", <<>>)
    /\ pc' = "done"
    /\ UNCHANGED <<input_dir, tables, extract_failed, loopVars, saveVars, trait_text,
                   probe, gui>>

\* lines 370-385: merge_traits_tables takes the next frame
MergeTraitsStep ==
    /\ Saving
    /\ store_keys[save_idx] = "traits"
    /\ merge_idx <= Len(table_store["traits"])
    /\ merged_df' = MergeFrame(merged_df, table_store["traits"][merge_idx])
    /\ merge_idx' = merge_idx + 1
    /\ UNCHANGED <<input_dir, pc, tables, extract_failed, loopVars, csv, writes, generated_files,
                   save_idx, result, trait_text, probe, gui>>

\* lines 229-233: the merged record is written as traits.csv
SaveTraits ==
    /\ Saving
    /\ store_keys[save_idx] = "traits"
    /\ merge_idx > Len(table_store["traits"])
    /\ csv' = [csv EXCEPT !["traits"] = ToCsv(flatten_dataframe(MergedResult(merged_df)))]
    /\ writes' = [writes EXCEPT !["traits"] = @ + 1]
    /\ generated_files' = Append(generated_files, "traits")
    /\ save_idx' = save_idx + 1
    /\ UNCHANGED <<input_dir, pc, tables, extract_failed, loopVars, merge_idx, merged_df, result,
                   trait_text, probe, gui>>

\* lines 243-274: the trait text is extracted and written, the result returned
TraitText ==
    /\ pc = "run"
    /\ idx = Len(tables)
    /\ save_idx > Len(store_keys)
    /\ \E text \in TraitTexts :
          LET files == IF text # <<>> /\ ~csv["traits"].exists
                       THEN Append(generated_files, "traits")
                       ELSE generated_files
          IN  /\ trait_text' = text
              /\ csv' = IF text = <<>> THEN csv
                        ELSE IF csv["traits"].exists
                             THEN [csv EXCEPT !["traits"] = TraitsWithText(@, text)]
                             ELSE [csv EXCEPT !["traits"] = TraitsFromText(text)]
              /\ writes' = IF text = <<>> THEN writes
                           ELSE [writes EXCEPT !["traits"] = @ + 1]
              /\ generated_files' = files
              /\ result' = ResultDict("success", files)
    /\ pc' = "done"
    /\ UNCHANGED <<input_dir, tables, extract_failed, loopVars, save_idx, merge_idx,
                   merged_df, probe, gui>>

Next ==
    \/ Start
    \/ ExtractTables
    \/ ExtractTablesFails
    \/ ProcessTable
    \/ SaveCategory
    \/ SaveCategoryRaises
    \/ MergeTraitsStep
    \/ SaveTraits
    \/ TraitText

Spec == Init /\ [][Next]_vars

(***************************************************************************)
(* The classifiers applied to one first row and one previous               *)
(* classification.                                                         *)
(***************************************************************************)
InitRow ==
    /\ ProcessInit
    /\ input_dir = "pdf"
    /\ gui = NoGui
    /\ \E r \in HeaderRows, p \in PrevValues :
          probe = [NoProbe EXCEPT !.df = RowDf(r), !.prev = p, !.op = "none"]

ProbeClassify ==
    /\ probe.op = "none"
    /\ probe' = [probe EXCEPT !.op = "classify_table", !.val = classify_table(probe.df)]
    /\ UNCHANGED <<procVars, gui>>

ProbeEnhanced ==
    /\ probe.op = "none"
    /\ probe' = [probe EXCEPT !.op = "classify_table_enhanced",
                              !.val = classify_table_enhanced(probe.df, probe.prev)]
    /\ UNCHANGED <<procVars, gui>>

ProbeLooksLikeData ==
    /\ probe.op = "none"
    /\ probe' = [probe EXCEPT !.op = "looks_like_data_not_header",
                              !.flag = looks_like_data_not_header(HeaderOf(probe.df))]
    /\ UNCHANGED <<procVars, gui>>

NextRow == ProbeClassify \/ ProbeEnhanced \/ ProbeLooksLikeData

SpecRow == InitRow /\ [][NextRow]_vars


(***************************************************************************)
(* The trait-text extractor applied to the page texts of one document.     *)
(***************************************************************************)
\* lines of page text: the heading, the heading with a colon, trait words,
\* an empty and a blank line, and the heading of another section
TextLines ==
    {sPersoenlicheEigenschaften,
     sPersoenlicheEigenschaften \o <<":">>,
     <<" ", "k", "l", "u", "g", " ">>,
     <<"f", "i", "t">>,
     <<>>,
     <<" ">>,
     <<"H", "o", "b", "b", "y", "s", ":">>}

\* page.extract_text(): at most n lines joined by newlines
PageTexts(n) ==
    {JoinWith(<<"\n">>, ls) : ls \in UNION {[1..m -> TextLines] : m \in 0..n}}

\* pdf.pages: one page of up to MaxLines lines, or two pages of at most one
\* line (None for a page without text)
TextInputs ==
    TextDocs
    \cup {<<p>> : p \in PageTexts(MaxLines)}
    \cup {<<p, q>> : p \in PageTexts(1) \cup {NoneObj}, q \in PageTexts(1) \cup {NoneObj}}

InitText ==
    /\ ProcessInit
    /\ input_dir = "pdf"
    /\ gui = NoGui
    /\ \E pages \in TextInputs, opened \in BOOLEAN :
          probe = [NoProbe EXCEPT !.pages = pages, !.opened = opened, !.op = "none"]

ProbeExtractTraitText ==
    /\ probe.op = "none"
    /\ probe' = [probe EXCEPT !.op = "extract_trait_text_from_pdf",
                              !.text = extract_trait_text_from_pdf(probe.pages, probe.opened)]
    /\ UNCHANGED <<procVars, gui>>

NextText == ProbeExtractTraitText

SpecText == InitText /\ [][NextText]_vars

(***************************************************************************)
(* The window of gui.py and its worker thread.                             *)
(***************************************************************************)
\* the methods class PDFProcessor defines
PDFProcessorMethods ==
    {"__init__", "setup_logging", "clean_output_directory", "get_single_pdf_file",
     "flatten_dataframe", "safe_filename", "extract_tables_from_pdf", "classify_table",
     "is_traits_table", "extract_trait_text_from_pdf", "process_single_pdf",
     "_looks_like_data_not_header", "classify_table_enhanced", "merge_traits_tables"}

\* check_process_button
check_process_button(w) ==
    [w EXCEPT !.process_enabled = w.input_dir.selected /\ w.output_dir]

InitGui ==
    /\ ProcessInit
    /\ input_dir = "pdf"
    /\ probe = NoProbe
    /\ gui = NewWindow

\* select_input_dir, the dialog not cancelled
SelectInputDir ==
    /\ gui.phase = "open"
    /\ \E dir_path \in Directories :
          gui' = check_process_button([gui EXCEPT !.input_dir = dir_path])
    /\ UNCHANGED <<procVars, probe>>

\* select_output_dir, the dialog not cancelled
SelectOutputDir ==
    /\ gui.phase = "open"
    /\ gui' = check_process_button([gui EXCEPT !.output_dir = TRUE])
    /\ UNCHANGED <<procVars, probe>>

\* start_processing, on a click of the enabled button: a new PDFProcessorThread
\* replaces self.worker and is started.  Replacing a worker whose thread is
\* still in run() destroys a running QThread, on which Qt may abort the process.
StartProcessing ==
    /\ gui.phase = "open"
    /\ gui.process_enabled
    /\ gui.input_dir.selected /\ gui.output_dir
    /\ gui.running + gui.pending < MaxWorkers
    /\ \E aborts \in {FALSE, gui.running > 0} :
          gui' = IF aborts THEN [gui EXCEPT !.phase = "aborted"]
                 ELSE [gui EXCEPT !.process_enabled = FALSE,
                                  !.progress_visible = TRUE,
                                  !.progress_value = 0,
                                  !.status_label = "Processing...",
                                  !.worker_dir = gui.input_dir,
                                  !.running = @ + 1]
    /\ UNCHANGED <<procVars, probe>>

\* PDFProcessorThread.run: PDFProcessor has no attribute process_all_pdfs, so
\* line 21 raises AttributeError and line 24 emits the error signal; the
\* finished signal of line 22 is not reached
WorkerRun ==
    /\ gui.phase = "open"
    /\ gui.running > 0
    /\ "process_all_pdfs" \notin PDFProcessorMethods
    /\ gui' = [gui EXCEPT !.running = @ - 1, !.pending = @ + 1, !.last_signal = "error"]
    /\ UNCHANGED <<procVars, probe>>

\* processing_error, the slot of the error signal
ProcessingError ==
    /\ gui.phase = "open"
    /\ gui.pending > 0
    /\ gui' = [gui EXCEPT !.pending = @ - 1,
                          !.process_enabled = TRUE,
                          !.progress_visible = FALSE,
                          !.status_label = "Error occurred during processing."]
    /\ UNCHANGED <<procVars, probe>>

NextGui ==
    \/ SelectInputDir
    \/ SelectOutputDir
    \/ StartProcessing
    \/ WorkerRun
    \/ ProcessingError

SpecGui == InitGui /\ [][NextGui]_vars
(***************************************************************************)
(* Claims about the classifiers (specification SpecRow).                   *)
(***************************************************************************)
\* the whitespace-trimmed cells of the first row of a fragment
TrimmedCells(df) == {Strip(Str(df.rows[1][k])) : k \in 1..Len(df.rows[1])}

\* every field of the signature of category t equals some trimmed cell
FullSignature(df, t) ==
    \A k \in 1..Len(TABLE_TYPES(t)) : TABLE_TYPES(t)[k] \in TrimmedCells(df)

\* the first category, in the order education, work_experience, skills, whose
\* signature is fully satisfied
FirstSatisfied(df) ==
    IF FullSignature(df, "education") THEN "education"
    ELSE IF FullSignature(df, "work_experience") THEN "work_experience"
    ELSE IF FullSignature(df, "skills") THEN "skills"
    ELSE "unknown"

\* C1: for every non-empty fragment classify_table returns the first category,
\* in the order education, work_experience, skills, whose every signature field
\* equals some trimmed first-row cell, and unknown exactly when no signature is
\* satisfied; classify_table_enhanced returns the same category whenever a
\* signature is satisfied, whatever the previous classification is.
C1_HeaderClassifier ==
    /\ probe.op = "classify_table" => probe.val = FirstSatisfied(probe.df)
    /\ (probe.op = "classify_table_enhanced" /\ FirstSatisfied(probe.df) # "unknown")
          => probe.val = FirstSatisfied(probe.df)

\* C1 witness: a first row with the education and the work_experience signature
\* was classified education right after a work_experience fragment
C1_Witness ==
    /\ probe.op = "classify_table_enhanced"
    /\ probe.prev = "work_experience"
    /\ FullSignature(probe.df, "education")
    /\ FullSignature(probe.df, "work_experience")
    /\ probe.val = "education"

\* the share of empty cells (empty string, nan, None) of a first row is at
\* least num/den
EmptyShare(header, num, den) ==
    den * Cardinality({k \in 1..Len(header) : Strip(Str(header[k])) \in {sEmpty, sNan, sNone}})
        >= num * Len(header)

\* the joined lower-cased first row contains one of the words
JoinedContains(header, words) ==
    \E w \in words : Contains(w, Lower(JoinWith(<<" ">>, header)))

WorkKeywords == {work_words[k] : k \in 1..Len(work_words)}
EducationKeywords == {edu_words[k] : k \in 1..Len(edu_words)}

\* C2: for a fragment with no header signature whose first row is
\* continuation-like, classify_table_enhanced returns work_experience iff the
\* previous classification is work_experience and (at least 50% of the cells are
\* empty or the joined row has a work keyword), and education iff the previous
\* classification is education and the joined row has an education keyword; the
\* rows ["", "", "", ""] and ["2015.0", "GmbH", "", ""] after work_experience
\* give work_experience.
C2_ContinuationDetector ==
    probe.op = "classify_table_enhanced" =>
        LET header == HeaderOf(probe.df)
        IN  /\ (FirstSatisfied(probe.df) = "unknown" /\ looks_like_data_not_header(header)) =>
                  /\ probe.val = "work_experience" <=>
                        /\ probe.prev = "work_experience"
                        /\ EmptyShare(header, 1, 2) \/ JoinedContains(header, WorkKeywords)
                  /\ probe.val = "education" <=>
                        /\ probe.prev = "education"
                        /\ JoinedContains(header, EducationKeywords)
            /\ (probe.df.rows[1] \in ExampleRows /\ probe.prev = "work_experience")
                  => probe.val = "work_experience"

\* C2 witness: ["2015.0", "GmbH", "", ""] after work_experience was confirmed
C2_Witness ==
    /\ probe.op = "classify_table_enhanced"
    /\ probe.df.rows[1] = <<cYear, wGmbH, sEmpty, sEmpty>>
    /\ probe.prev = "work_experience"
    /\ probe.val = "work_experience"

\* a non-empty cell that, after stripping '.' and '-', is a pure numeric token
\* of length at least 4
NumericToken(cell_str) ==
    LET token == Remove(Remove(cell_str, "."), "-")
    IN  IsDigit(token) /\ Len(token) >= 4

\* the four signals of the pre-filter as the claim states them
ClaimedDataLike(row_list) ==
    \/ EmptyShare(row_list, 6, 10)
    \/ \E k \in 1..Len(row_list) :
          LET cell_str == Strip(Str(row_list[k]))
          IN  /\ cell_str \notin {sEmpty, sNan, sNone}
              /\ \/ NumericToken(cell_str)
                 \/ \E j \in 1..Len(business_words) : Contains(business_words[j], cell_str)
                 \/ \E j \in 1..Len(job_words) : Contains(job_words[j], Lower(cell_str))

\* C3: the pre-filter returns true iff at least 60% of the cells are empty, or
\* some non-empty cell is a pure numeric token of length at least 4 after
\* stripping '.' and '-', or contains an organization suffix, or contains a
\* manual-labor job keyword (case-insensitive).
C3_PreFilter ==
    probe.op = "looks_like_data_not_header" =>
        (probe.flag <=> ClaimedDataLike(HeaderOf(probe.df)))

(***************************************************************************)
(* Claims about process_single_pdf (specification Spec).                   *)
(***************************************************************************)
AnchorCategories == {"work_experience", "education"}

\* the category of the fragment before the k-th one
CategoryBefore(k) == IF k = 1 THEN "None" ELSE log[k - 1].table_type

\* C4: the only classification state carried from one fragment to the next is
\* the category of the fragment directly before; a headerless fragment is
\* classified as a continuation only when that category is work_experience or
\* education; through a run of continuations the anchor category persists; and
\* after a fragment of another category (skills, traits-routed, unknown) a
\* headerless fragment is never confirmed as a continuation.
C4_PreviousCategoryOnly ==
    /\ Len(log) = idx
    /\ previous_classification = CategoryBefore(idx + 1)
    /\ \A k \in 1..Len(log) :
          /\ log[k].previous = CategoryBefore(k)
          /\ (log[k].direct = "unknown" /\ log[k].table_type # "unknown") =>
                /\ CategoryBefore(k) \in AnchorCategories
                /\ log[k].table_type = CategoryBefore(k)
          /\ log[k].is_continuation =>
                /\ log[k].table_type = CategoryBefore(k)
                /\ CategoryBefore(k + 1) = CategoryBefore(k)
          /\ (log[k].direct = "unknown" /\ CategoryBefore(k) \notin AnchorCategories) =>
                /\ log[k].table_type = "unknown"
                /\ ~log[k].is_continuation

\* C4 witness: a work_experience fragment, then a traits-routed fragment, then
\* a headerless fragment with an empty first row, which stayed unknown
C4_Witness ==
    /\ Len(log) = 3
    /\ log[1].table_type = "work_experience"
    /\ log[2].route = "traits"
    /\ tables[3] = Normalize(GridContEmpty)
    /\ log[3].direct = "unknown"
    /\ log[3].table_type = "unknown"

\* C5: a fragment treated as a continuation of category C with c columns, the
\* most recently accumulated fragment for C (the anchor) having a columns, is
\* stored with exactly a columns carrying the anchor's labels in order; its
\* first min(c, a) columns carry the original data positionally and the a - c
\* added columns are empty; and the loop is never left by an error.
C5_ColumnReconciler ==
    /\ (pc = "done" /\ result.kind = "dict") => idx = Len(tables)
    /\ (Len(log) >= 1 /\ log[Len(log)].is_continuation /\ last.anchor # <<>>) =>
          LET anchor == last.anchor[1]
              a == Len(anchor.columns)
              c == Len(last.df_in.columns)
              out == last.df_out
              acc == table_store[log[Len(log)].table_type]
          IN  /\ acc[Len(acc)] = out
              /\ acc[Len(acc) - 1] = anchor
              /\ Len(out.columns) = a
              /\ out.columns = anchor.columns
              /\ Len(out.rows) = Len(last.df_in.rows)
              /\ \A r \in 1..Len(out.rows) :
                    /\ Len(out.rows[r]) = a
                    /\ \A j \in 1..a :
                          out.rows[r][j] = IF j <= c THEN last.df_in.rows[r][j] ELSE sEmpty

\* C5 witness: a continuation of 3 columns was padded to the 5 columns of its
\* work_experience anchor, and then one of 6 columns was cut to 5
C5_Witness ==
    /\ Len(log) = 3
    /\ log[1].table_type = "work_experience"
    /\ log[2].is_continuation
    /\ log[3].is_continuation
    /\ Len(tables[2].columns) = 3
    /\ Len(table_store["work_experience"][2].columns) = 5
    /\ Len(last.df_in.columns) = 6
    /\ Len(last.df_out.columns) = 5

\* the first row of a frame that holds data, and that there is one
HasDataRow(df) == \E r \in 1..Len(df.rows) : \E k \in 1..Len(df.rows[r]) : ~IsEmptyCell(df.rows[r][k])
FirstDataRow(df) ==
    df.rows[CHOOSE r \in 1..Len(df.rows) :
               /\ \E k \in 1..Len(df.rows[r]) : ~IsEmptyCell(df.rows[r][k])
               /\ \A q \in 1..(r - 1) : \A k \in 1..Len(df.rows[q]) : IsEmptyCell(df.rows[q][k])]

\* the frame's first non-empty row supplies a non-empty value for the field
Supplies(df, field) ==
    /\ HasDataRow(df)
    /\ \E k \in 1..Len(df.columns) : df.columns[k] = field /\ ~IsEmptyCell(FirstDataRow(df)[k])

Supplied(df, field) ==
    FirstDataRow(df)[CHOOSE k \in 1..Len(df.columns) :
                        df.columns[k] = field /\ ~IsEmptyCell(FirstDataRow(df)[k])]

\* the value of a field of the merged traits record (empty while there is none)
MergedValue(p) == IF merged_df.rows = <<>> THEN sEmpty ELSE merged_df.rows[1][p]

\* C6: in merge_traits_tables, over the traits fragments merged so far, each
\* field holds the value of the first fragment whose first non-empty row
\* supplies a non-empty value for it (a later fragment never changes it), and is
\* empty while no fragment has supplied one; A = {Name: "Max", Geburtsdatum: ""}
\* then B = {Name: "", Geburtsdatum: "1990-01-01"} gives Max and 1990-01-01.
C6_FirstNonEmptyWins ==
    \A p \in 1..Len(all_columns) :
        LET dfs == table_store["traits"]
            suppliers == {k \in 1..(merge_idx - 1) : Supplies(dfs[k], all_columns[p])}
        IN  IF suppliers = {}
            THEN IsEmptyCell(MergedValue(p))
            ELSE MergedValue(p) =
                    Supplied(dfs[CHOOSE k \in suppliers : \A j \in suppliers : k <= j],
                             all_columns[p])

\* C6 witness: the fragments A and B were merged into Max and 1990-01-01
C6_Witness ==
    /\ table_store["traits"] =
          <<PromoteHeader(Normalize(GridTraitsA)), PromoteHeader(Normalize(GridTraitsB))>>
    /\ merge_idx = 3
    /\ MergedValue(PositionOf(sName, all_columns)) = cMax
    /\ MergedValue(PositionOf(sGeburtsdatum, all_columns)) = cBirth

\* the free-text traits field of traits.csv, when the file has a row with it
FreeTextFilled(file) ==
    /\ file.exists
    /\ file.rows # <<>>
    /\ InList(sPersoenlicheEigenschaften, file.columns)
    /\ ~IsEmptyCell(file.rows[1][PositionOf(sPersoenlicheEigenschaften, file.columns)])
FreeText(file) == file.rows[1][PositionOf(sPersoenlicheEigenschaften, file.columns)]

\* C7: the extracted trait text is written into the free-text traits field
\* only if the table path has not populated it; a value filled from a table
\* fragment is never overwritten by the extracted text.
C7_TraitTextKeepsTableValue ==
    [][FreeTextFilled(csv["traits"]) =>
           /\ FreeTextFilled(csv'["traits"])
           /\ FreeText(csv'["traits"]) = FreeText(csv["traits"])]_vars

\* the fragment sequence of the end-to-end example
EndToEndTables == ExtractedTables(<<GridWork, GridContEmpty, GridSkills>>)

\* C8: for the fragments [work_experience header + 2 data rows, continuation
\* with an empty header row + 1 data row, skills header + 1 data row] the
\* work_experience output has exactly 3 data rows, the header stripped once and
\* the empty header row of the continuation not among them, and the skills
\* output has exactly 1 data row.
C8_EndToEnd ==
    (pc = "done" /\ result.kind = "dict" /\ tables = EndToEndTables) =>
        /\ result.status = "success"
        /\ csv["work_experience"].exists
        /\ Len(csv["work_experience"].rows) = 3
        /\ csv["skills"].exists
        /\ Len(csv["skills"].rows) = 1

\* C9: every fragment is appended to exactly one accumulator, in document
\* order, none is dropped, and at the end every category with at least one
\* accumulated fragment, unknown included, is written out as its file.
C9_AllRoutedAndWritten ==
    /\ \A c \in Categories :
          Len(table_store[c]) = Cardinality({k \in 1..Len(log) : log[k].route = c})
    /\ (pc = "done" /\ result.kind = "dict") =>
          \A c \in Categories : table_store[c] # <<>> => csv[c].exists

\* C10: when the extraction raises, process_single_pdf reports the document
\* with status error, not success.
C10_ExtractionFailureIsError ==
    (pc = "done" /\ result.kind = "dict" /\ extract_failed) => result.status = "error"


(***************************************************************************)
(* The outcome of a call.                                                  *)
(***************************************************************************)
\* C11: every call of process_single_pdf ends with exactly one outcome: None
\* if and only if the input directory holds no PDF, otherwise one result
\* record with status success or error; no exception leaves the call, and an
\* error record carries an empty files list.
C11_OneOutcome ==
    pc = "done" =>
        /\ result.kind \in {"None", "dict"}
        /\ result.kind = "None" <=> input_dir # "pdf"
        /\ result.kind = "dict" =>
              /\ result.status \in {"success", "error"}
              /\ result.status = "error" => result.files = <<>>

(***************************************************************************)
(* The grid normalizer.                                                    *)
(***************************************************************************)
\* a cell that is null, the empty string or the missing-value placeholder
BlankCell(cell) == IsNa(cell) \/ cell = sEmpty

AllEmptyRow(df, r) == \A k \in 1..Len(df.columns) : BlankCell(df.rows[r][k])
AllEmptyColumn(df, k) == \A r \in 1..Len(df.rows) : BlankCell(df.rows[r][k])

\* C12: a fragment the normalizer outputs has no all-empty row and no
\* all-empty column (every cell null, empty string or missing placeholder),
\* normalizing it again changes nothing, and it is not empty (a fragment that
\* normalizes to empty is discarded).
C12_Normalizer ==
    \A i \in 1..Len(tables) :
        LET df == tables[i]
        IN  /\ \A r \in 1..Len(df.rows) : ~AllEmptyRow(df, r)
            /\ \A k \in 1..Len(df.columns) : ~AllEmptyColumn(df, k)
            /\ DropNaRows(DropNaColumns(df)) = df
            /\ ~IsEmptyDf(df)

(***************************************************************************)
(* The traits output.                                                      *)
(***************************************************************************)
\* C13: whenever a traits output is produced (a fragment was routed to
\* traits, or the trait-text extractor returned text), it holds exactly one
\* data row, also when the traits fragments consist of a header row only.
C13_TraitsOneRow ==
    /\ csv["traits"].exists => Len(csv["traits"].rows) = 1
    /\ (pc = "done" /\ result.kind = "dict" /\ result.status = "success"
           /\ (table_store["traits"] # <<>> \/ trait_text # <<>>))
          => csv["traits"].exists

(***************************************************************************)
(* Batch mode as the window starts it.                                     *)
(***************************************************************************)
\* the entries of a result set with status error
ErrorEntries(results) == {k \in 1..Len(results) : results[k].status = "error"}

\* C14: once the worker started on a directory of N documents has run, the
\* window has a result set with exactly N entries, one per document, and
\* when exactly one document's extraction throws exactly one entry has status
\* error.
C14_BatchResults ==
    (gui.phase = "open" /\ gui.worker_dir.selected /\ gui.running = 0) =>
        /\ gui.last_signal = "finished"
        /\ Len(gui.results) = gui.worker_dir.pdfs
        /\ gui.worker_dir.failing # 0 => Cardinality(ErrorEntries(gui.results)) = 1

(***************************************************************************)
(* The trait-text extractor.                                               *)
(***************************************************************************)
\* the lines of page i of the probed document, none for a page without text
LinesOf(i) ==
    IF probe.pages[i] = NoneObj \/ probe.pages[i] = <<>> THEN <<>>
    ELSE Split(probe.pages[i], <<>>)

HeadingAt(i, j) == Contains(sPersoenlicheEigenschaften, LinesOf(i)[j])
HeadingPages == {i \in 1..Len(probe.pages) : \E j \in 1..Len(LinesOf(i)) : HeadingAt(i, j)}
FirstHeadingPage == CHOOSE i \in HeadingPages : \A q \in HeadingPages : i <= q
FirstHeadingLine ==
    CHOOSE j \in 1..Len(LinesOf(FirstHeadingPage)) :
        /\ HeadingAt(FirstHeadingPage, j)
        /\ \A q \in 1..(j - 1) : ~HeadingAt(FirstHeadingPage, q)

\* the line that ends the collected text: blank, or ending in a colon
Terminates(line) == Strip(line) = <<>> \/ Strip(line)[Len(Strip(line))] = ":"

\* the claimed text: the stripped lines after the first heading line up to the
\* first terminating line of that page, joined by single spaces
ClaimedTraitText ==
    IF HeadingPages = {} THEN <<>>
    ELSE LET lines == LinesOf(FirstHeadingPage)
             h == FirstHeadingLine
             stops == {k \in (h + 1)..Len(lines) : Terminates(lines[k])}
             last_line == IF stops = {} THEN Len(lines)
                          ELSE (CHOOSE k \in stops : \A q \in stops : k <= q) - 1
         IN  JoinWith(<<" ">>, [k \in 1..(last_line - h) |-> Strip(lines[h + k])])

\* C15: on a document that opens, extract_trait_text_from_pdf returns the
\* single-space join of the stripped lines that follow the first heading line
\* of the first page with the heading, up to the first blank line or line
\* ending in a colon, without looking at later lines or pages, and the empty
\* string when no page has the heading.
C15_TraitTextExtractor ==
    (probe.op = "extract_trait_text_from_pdf" /\ probe.opened) =>
        probe.text = ClaimedTraitText

\* a page of text without the heading, then a page where non-empty trait text
\* is cut off by a section heading ending in a colon
C15_Witness ==
    /\ probe.op = "extract_trait_text_from_pdf"
    /\ probe.opened
    /\ probe.pages = <<NoneObj, tColon>>
    /\ probe.text = <<"k", "l", "u", "g">>

(***************************************************************************)
(* Recognized headers and continuations.                                   *)
(***************************************************************************)
\* C16: a fragment is treated as a continuation only if the header classifier
\* judged it unknown; a fragment whose first row fully satisfies a signature
\* is handled as a new table, its first row removed and used as the column
\* labels, so that a recognized header row is never stored as a data row.
C16_RecognizedHeaderIsNewTable ==
    \A k \in 1..Len(log) :
        /\ log[k].is_continuation => log[k].direct = "unknown"
        /\ (k = Len(log) /\ log[k].direct # "unknown") =>
              /\ last.df_out.columns = HeaderOf(last.df_in)
              /\ last.df_out.rows = Tail(last.df_in.rows)

(***************************************************************************)
(* The life of a category within one document.                             *)
(***************************************************************************)
\* C17: no category output is written before the whole fragment sequence is
\* consumed, no fragment is accumulated after an output was written, and each
\* category's output, traits included, is written exactly once and never
\* rewritten.
C17_FinalizedOnce ==
    /\ (\E c \in Categories : writes[c] > 0) => (pc # "start" /\ idx = Len(tables))
    /\ \A c \in Categories : writes[c] <= 1
    /\ (pc = "done" /\ result.kind = "dict" /\ result.status = "success") =>
          \A c \in Categories : table_store[c] # <<>> => writes[c] = 1

\* C18: whenever a fragment is judged a continuation of a category, the
\* fragment directly before it was stored in that category's accumulator, so
\* the anchor exists, the stored frame carries the anchor's column labels and
\* the positional fallback labels are not used.
C18_AnchorExists ==
    \A k \in 1..Len(log) :
        log[k].is_continuation =>
            /\ k > 1
            /\ log[k - 1].route = log[k].table_type
            /\ k = Len(log) =>
                  /\ last.anchor # <<>>
                  /\ last.df_out.columns = last.anchor[1].columns
                  /\ last.df_out.columns # GenericColumns(last.df_in).columns

\* an education fragment followed by a headerless fragment judged its
\* continuation
C18_Witness ==
    /\ Len(log) = 2
    /\ log[2].is_continuation
    /\ log[2].direct = "unknown"
    /\ log[2].table_type = "education"
    /\ last.anchor = <<table_store["education"][1]>>
====
